---- MODULE Spec2Model ----
(***************************************************************************)
(* Render orchestration of one PdfPage instance (PdfPage.vue) and the      *)
(* visible-window scheduler of VuePdfEmbed (VuePdfEmbed.vue).              *)
(*                                                                         *)
(* One action is one synchronous segment of the component: an event        *)
(* handler or watcher callback with everything it calls, or the            *)
(* continuation of an async function from the await that woke it up to     *)
(* its next await.  The page-description provider and the rendering        *)
(* backend are external: their promises settle in any order.  A call to    *)
(* the backend's text-layer or annotation-layer renderer is recorded, with *)
(* the nodes it produces, at the moment the component calls it.            *)
(***************************************************************************)
EXTENDS Integers, FiniteSets, Sequences, TLC

\* ---------------------------------------------------------------- bounds
MaxToken == 3         \* renderToken never exceeds this
MaxTextToken == 4     \* textLayerRenderToken never exceeds this
MaxGen == 1           \* times an overlay container is (re)created by v-if
MaxSignals == 1       \* prop changes and resize notifications in one behaviour
MaxFaults == 1        \* rejections by the provider or the backend

Undefined == 0 - 1    \* an optional numeric prop that is not set
Tokens == 1..MaxToken
TextTokens == 1..MaxTextToken

\* Fixture of the provider: page.view and page.rotate of the one page.
PageView == <<0, 0, 2, 4>>
PageRotate == 0 * 90

WidthValues == {Undefined, 0, 2}
HeightValues == {Undefined, 4}
ContainerWidths == {0, 2, 4}
RotationValues == {0, 90}
ScaleValues == {1, 2}
PageNums == {1, 2}

VARIABLES
  props,      \* the reactive prop surface of the page
  env,        \* container width, 2D context availability, lifecycle
  inst,       \* module-level lets and refs of the instance
  dom,        \* canvas and overlay containers of the page element
  runs,       \* renderPage() invocations, indexed by the token they hold
  textRuns,   \* renderTextLayerOnly() invocations, indexed by their token
  log,        \* observation: emitted events, calls made to the provider
  sched,      \* VuePdfEmbed: doc, visiblePages, pagesToRender
  calc        \* the last evaluation of one of the geometry functions

vars == <<props, env, inst, dom, runs, textRuns, log, sched, calc>>

World ==
  [props |-> props, env |-> env, inst |-> inst, dom |-> dom,
   runs |-> runs, textRuns |-> textRuns, log |-> log]

Min(a, b) == IF a <= b THEN a ELSE b

\* ------------------------------------------------------------- geometry
viewWidth == PageView[3] - PageView[1]
viewHeight == PageView[4] - PageView[2]

\* ((props.rotation % 360) + page.rotate) % 360, rotation >= 0 here
pageRotation(w) == ((w.props.rotation % 360) + PageRotate) % 360

isTransposed(w) == ((pageRotation(w) \div 90) % 2) # 0

\* ratio = height / width of the laid-out page, as <<numerator, denominator>>
ratioOf(w) ==
  IF isTransposed(w) THEN <<viewWidth, viewHeight>> ELSE <<viewHeight, viewWidth>>

\* elements a resize observer can observe: external containers handed in as
\* props.parentRoot (NoElement stands for null) and the page element's parent
NoElement == 0
ParentRoots == {NoElement, 1, 2}
ParentElement == 3

\* props.parentRoot ?? root.value?.parentElement ?? root.value
getContainerElement(w) ==
  IF w.props.parentRoot # NoElement THEN w.props.parentRoot
  ELSE IF w.env.life = "mounted" THEN ParentElement
  ELSE NoElement

\* the width of the effective container, 0 without one
getContainerWidth(w) ==
  IF getContainerElement(w) # NoElement THEN w.env.containerWidth ELSE 0

\* `props.height && !props.width`
heightDriven(p) ==
  /\ p.height # Undefined /\ p.height # 0
  /\ (p.width = Undefined \/ p.width = 0)

\* a sizing that never lets the height drive
getPageDimensionsNoHeight(w, ratio) ==
  LET containerWidth == getContainerWidth(w)
      width == IF w.props.width # Undefined
               THEN (IF containerWidth > 0
                     THEN Min(w.props.width, containerWidth)
                     ELSE w.props.width)
               ELSE containerWidth
  IN <<width, (width * ratio[1]) \div ratio[2]>>

\* a sizing that takes the requested width uncapped
getPageDimensionsUncapped(w, ratio) ==
  IF heightDriven(w.props)
  THEN <<(w.props.height * ratio[2]) \div ratio[1], w.props.height>>
  ELSE LET width == IF w.props.width # Undefined
                    THEN w.props.width ELSE getContainerWidth(w)
       IN <<width, (width * ratio[1]) \div ratio[2]>>

getPageDimensions(w, ratio) ==
  IF heightDriven(w.props)
  THEN <<(w.props.height * ratio[2]) \div ratio[1], w.props.height>>
  ELSE LET containerWidth == getContainerWidth(w)
           width == IF w.props.width # Undefined
                    THEN (IF containerWidth > 0
                          THEN Min(w.props.width, containerWidth)
                          ELSE w.props.width)
                    ELSE containerWidth
       IN <<width, (width * ratio[1]) \div ratio[2]>>

shouldRender(w) == w.props.inWindow

\* ---------------------------------------------------- staleness, events
\* a staleness check that forgets the token
isStaleDestroyedOnly(w, t) == w.inst.isDestroyed

\* a staleness test that never reports a pass as stale
isStaleNever(w, t) == FALSE

\* `isStale` of renderPage(): isDestroyed || myToken !== renderToken
isStale(w, t) == w.inst.isDestroyed \/ t # w.inst.renderToken

\* `isStale` of renderTextLayerOnly()
isStaleText(w, t) == w.inst.isDestroyed \/ t # w.inst.textLayerRenderToken

\* The data model's notion of a superseded pass, used to observe the code.
Superseded(w, t) == w.inst.isDestroyed \/ t # w.inst.renderToken
SupersededText(w, t) == w.inst.isDestroyed \/ t # w.inst.textLayerRenderToken

\* Observation of a mutation made on behalf of renderPage() pass t.
noteWrite(w, t, what) ==
  IF Superseded(w, t)
  THEN [w EXCEPT !.log.staleWrites = @ \cup {<<"renderPage", what>>}]
  ELSE w

noteTextWrite(w, t, what) ==
  IF SupersededText(w, t)
  THEN [w EXCEPT !.log.staleWrites = @ \cup {<<"renderTextLayerOnly", what>>}]
  ELSE w

emitRendered(w, t) ==
  [noteWrite(w, t, "emit rendered") EXCEPT !.log.rendered[t] = @ + 1]

emitRenderingFailed(w, t, via, name) ==
  [noteWrite(w, t, "emit rendering-failed") EXCEPT
     !.log.failed = @ \cup {<<t, via, name>>}]

\* handleRenderError(error)
handleRenderErrorAlways(w, t, via, name) == emitRenderingFailed(w, t, via, name)

handleRenderError(w, t, via, name) ==
  IF name = "RenderingCancelledException"
  THEN w
  ELSE emitRenderingFailed(w, t, via, name)

\* dropping the task handle without cancelling the task
cancelRenderingTaskDropsHandle(w) ==
  [w EXCEPT !.inst.renderingTask = 0]

\* renderingTask.cancel(): a pending raster task rejects with the
\* cancellation signal, and the handler attached by
\* `renderingTask.promise.catch(handleRenderError)` runs.
cancelRenderingTask(w) ==
  LET k == w.inst.renderingTask IN
  IF k = 0 THEN w
  ELSE LET w1 == [w EXCEPT !.inst.renderingTask = 0] IN
       IF w.runs[k].raster = "pending"
       THEN handleRenderError([w1 EXCEPT !.runs[k].raster = "cancelled"],
                              k, "rasterCatch", "RenderingCancelledException")
       ELSE w1

\* releaseCanvas(canvas) of ./utils: resets the pixel dimensions
releaseCanvas(w) == [w EXCEPT !.dom.canvas = 0]

\* emptyElement(el) of ./utils
emptyElement(nodes) == {}

\* --------------------------------------------------------------- cleanup
cleanupKeepsAnnotations(w) ==
  LET w1 == cancelRenderingTask(
              [w EXCEPT !.inst.renderToken = @ + 1,
                        !.inst.textLayerRenderToken = @ + 1,
                        !.inst.isRendered = FALSE])
      w2 == IF w1.env.life = "mounted" THEN releaseCanvas(w1) ELSE w1
  IN [w2 EXCEPT !.dom.text.nodes = emptyElement(@),
                !.inst.page = FALSE,
                !.log.cleaned = Min(@ + 1, 2)]

\* a cleanup() that leaves the text-layer token as it is
cleanupKeepsTextToken(w) ==
  LET w1 == cancelRenderingTask(
              [w EXCEPT !.inst.renderToken = @ + 1,
                        !.inst.isRendered = FALSE])
      w2 == IF w1.env.life = "mounted" THEN releaseCanvas(w1) ELSE w1
  IN [w2 EXCEPT !.dom.text.nodes = emptyElement(@),
                !.dom.annot.nodes = emptyElement(@),
                !.inst.page = FALSE,
                !.log.cleaned = Min(@ + 1, 2)]

cleanup(w) ==
  LET w1 == cancelRenderingTask(
              [w EXCEPT !.inst.renderToken = @ + 1,
                        !.inst.textLayerRenderToken = @ + 1,
                        !.inst.isRendered = FALSE])
      w2 == IF w1.env.life = "mounted" THEN releaseCanvas(w1) ELSE w1
  IN [w2 EXCEPT !.dom.text.nodes = emptyElement(@),
                !.dom.annot.nodes = emptyElement(@),
                !.inst.page = FALSE,
                !.log.cleaned = Min(@ + 1, 2)]

\* ------------------------------------------------------------ renderPage
NoRun ==
  [pc |-> "none", outcome |-> "", byRetry |-> FALSE, textDiv |-> 0, annotDiv |-> 0,
   raster |-> "none", text |-> "none", annot |-> "none"]

\* the pass returns: its locals are gone, and nothing awaits its text and
\* annotation tasks any more (the raster task keeps its catch handler)
finish(w, t, outcome) ==
  [w EXCEPT !.runs[t] = [NoRun EXCEPT !.pc = "done", !.outcome = outcome,
                                      !.raster = w.runs[t].raster]]

\* renderPage() up to `await props.doc.getPage(props.pageNum)`
renderPage(w, byRetry) ==
  IF ~w.props.doc THEN w
  ELSE LET t == w.inst.renderToken + 1 IN
       IF t \notin Tokens THEN [w EXCEPT !.inst.renderToken = t]
       ELSE [w EXCEPT !.inst.renderToken = t,
                      !.runs[t] = [NoRun EXCEPT !.pc = "getPage", !.byRetry = byRetry],
                      !.log.getPageCalls = @ + 1,
                      !.log.cleaned = 0]

\* the zero-dimension branch: one retry on the next animation frame
scheduleRetry(w, t) ==
  IF ~w.inst.pendingRetryRaf
  THEN [w EXCEPT !.inst.pendingRetryRaf = TRUE,
                 !.env.retryFrames = @ + 1,
                 !.log.retryByRetry = @ \/ w.runs[t].byRetry]
  ELSE w

\* `if (props.annotationLayer && annotationLayerDiv)` up to its await,
\* else on to `await Promise.all(renderTasks)`
annotationBranch(w, t) ==
  IF w.props.annotationLayer /\ w.runs[t].annotDiv # 0
  THEN [w EXCEPT !.runs[t].pc = "getAnnotations"]
  ELSE [w EXCEPT !.runs[t].pc = "all"]

\* renderTextractTextLayer(): empties the container, then one node per
\* placed LINE block of this page
renderTextractTextLayer(w, div, tag) ==
  IF div = w.dom.text.gen /\ div # 0
  THEN [w EXCEPT !.dom.text.nodes = emptyElement(@) \cup {tag},
                 !.log.ocrCalls = @ + 1]
  ELSE [w EXCEPT !.log.ocrCalls = @ + 1]

\* new TextLayer({container, textContentSource, viewport}).render()
nativeTextLayerRender(w, div, tag) ==
  LET w1 == [w EXCEPT !.log.nativeTextCalls = @ + 1,
                      !.log.nativeWhileOcr =
                         @ \/ (w.props.textLayer /\ w.props.textractBlocks)]
  IN IF div = w.dom.text.gen /\ div # 0
     THEN [w1 EXCEPT !.dom.text.nodes = @ \cup {tag}]
     ELSE w1

\* `if (props.textLayer && textLayerDiv)` of renderPage()
textBranch(w, t) ==
  IF w.props.textLayer /\ w.runs[t].textDiv # 0
  THEN IF w.props.textractBlocks
       THEN IF isStale(w, t)
            THEN finish(w, t, "stale")
            ELSE annotationBranch(
                   renderTextractTextLayer(noteWrite(w, t, "textLayer"),
                      w.runs[t].textDiv, <<"renderPage", t, "ocr">>), t)
       ELSE [w EXCEPT !.runs[t].pc = "getTextContent"]
  ELSE annotationBranch(w, t)

\* page.render(renderContext) and the task list
startRaster(w, t) ==
  LET w1 == cancelRenderingTask(w) IN
  [w1 EXCEPT !.inst.renderingTask = t,
             !.runs[t].raster = "pending",
             !.log.rasterCalls = @ + 1,
             !.log.rasterOutside = @ \/ ~shouldRender(w),
             !.log.rasterStale = @ \/ Superseded(w, t)]

\* renderPage() from the resolution of getPage to its next await
afterGetPage(w, t) ==
  IF isStale(w, t) THEN finish(w, t, "stale")
  ELSE
    LET w1 == [noteWrite(w, t, "page") EXCEPT !.inst.page = TRUE]
        ratio == ratioOf(w1)
        dims == getPageDimensions(w1, ratio)
    IN IF dims[1] = 0 \/ dims[2] = 0
       THEN finish(scheduleRetry(w1, t), t, "zeroDims")
       ELSE
         LET w2 == [noteWrite(w1, t, "pageWidth") EXCEPT
                      !.inst.pageRatio = ratio,
                      !.inst.pageWidth = dims[1],
                      !.inst.pageHeight = dims[2]]
         IN IF w2.env.life # "mounted"
            THEN finish(w2, t, "noCanvas")
            ELSE
              LET w3 == [noteWrite(w2, t, "canvas") EXCEPT
                           !.dom.canvas = t,
                           !.runs[t].textDiv = w2.dom.text.gen,
                           !.runs[t].annotDiv = w2.dom.annot.gen]
              IN IF ~w3.env.hasContext
                 THEN finish(w3, t, "noContext")
                 ELSE textBranch(startRaster(w3, t), t)

\* ... from the resolution of getTextContent to the next await
afterGetTextContent(w, t) ==
  IF isStale(w, t) THEN finish(w, t, "stale")
  ELSE annotationBranch(
         [nativeTextLayerRender(noteWrite(w, t, "textLayer"),
             w.runs[t].textDiv, <<"renderPage", t, "native">>)
          EXCEPT !.runs[t].text = "pending"], t)

\* renderFormFields(): `formLayerDiv.innerHTML = ''`, then the markers
renderFormFields(w, t) ==
  [noteWrite(w, t, "formLayer") EXCEPT !.dom.form.nodes = emptyElement(@) \cup {t}]

\* ... from the resolution of getAnnotations to `await Promise.all`
afterGetAnnotations(w, t) ==
  IF isStale(w, t) THEN finish(w, t, "stale")
  ELSE
    LET w1 == [noteWrite(w, t, "annotationLayer") EXCEPT
                 !.runs[t].annot = "pending",
                 !.log.annotCalls = @ + 1,
                 !.dom.annot.nodes =
                    IF w.runs[t].annotDiv = w.dom.annot.gen
                    THEN @ \cup {t} ELSE @]
    IN IF w1.dom.form.gen = 0
       THEN finish(w1, t, "noFormLayer")
       ELSE [renderFormFields(w1, t) EXCEPT !.runs[t].pc = "all"]

\* Promise.all(renderTasks): the raster entry is `promise.catch(...)`, so
\* it resolves however the raster task settled
allRejected(r) == r.text = "error" \/ r.annot = "error"
allResolved(r) ==
  /\ r.raster \in {"resolved", "cancelled", "error"}
  /\ r.text \in {"none", "resolved"}
  /\ r.annot \in {"none", "resolved"}

\* a Promise.all continuation whose catch reports a failure of any pass
afterPromiseAllReportsStale(w, t) ==
  IF allRejected(w.runs[t])
  THEN finish(handleRenderError(w, t, "allCatch", "Error"), t, "failed")
  ELSE IF isStale(w, t) THEN finish(w, t, "stale")
       ELSE finish([emitRendered(noteWrite(w, t, "isRendered"), t) EXCEPT
                      !.inst.isRendered = TRUE], t, "rendered")

afterPromiseAll(w, t) ==
  IF allRejected(w.runs[t])
  THEN IF isStale(w, t) THEN finish(w, t, "stale")
       ELSE finish(handleRenderError(w, t, "allCatch", "Error"), t, "failed")
  ELSE IF isStale(w, t) THEN finish(w, t, "stale")
       ELSE finish([emitRendered(noteWrite(w, t, "isRendered"), t) EXCEPT
                      !.inst.isRendered = TRUE], t, "rendered")

\* the outer `catch (error)` of renderPage()
outerCatch(w, t) ==
  IF isStale(w, t) THEN finish(w, t, "stale")
  ELSE finish(emitRenderingFailed(w, t, "outerCatch", "Error"), t, "threw")

\* --------------------------------------------------- renderTextLayerOnly
NoTextRun == [pc |-> "none", outcome |-> "", div |-> 0]

finishText(w, t, outcome) ==
  [w EXCEPT !.textRuns[t] = [NoTextRun EXCEPT !.pc = "done", !.outcome = outcome]]

\* renderTextLayerOnly() up to `await nextTick()`
renderTextLayerOnly(w) ==
  IF ~w.props.doc \/ w.env.life # "mounted" THEN w
  ELSE IF ~w.props.textLayer THEN w
  ELSE LET t == w.inst.textLayerRenderToken + 1 IN
       IF t \notin TextTokens THEN [w EXCEPT !.inst.textLayerRenderToken = t]
       ELSE [w EXCEPT !.inst.textLayerRenderToken = t,
                      !.textRuns[t] = [NoTextRun EXCEPT !.pc = "nextTick"],
                      !.log.cleaned = 0]

\* from the geometry computation to the OCR / native branch
textLayerBody(w, t) ==
  LET ratio == ratioOf(w)
      dims == getPageDimensions(w, ratio)
  IN IF dims[1] = 0 \/ dims[2] = 0
     THEN finishText(w, t, "zeroDims")
     ELSE
       LET w1 == [noteTextWrite(w, t, "pageWidth") EXCEPT
                    !.inst.pageRatio = ratio,
                    !.inst.pageWidth = dims[1],
                    !.inst.pageHeight = dims[2]]
       IN IF w1.props.textractBlocks
          THEN finishText(
                 renderTextractTextLayer(noteTextWrite(w1, t, "textLayer"),
                    w1.textRuns[t].div, <<"renderTextLayerOnly", t, "ocr">>),
                 t, "ocr")
          ELSE [w1 EXCEPT !.textRuns[t].pc = "getTextContent"]

\* a text-only pass that fetches the page even when a handle is cached
afterNextTickAlwaysFetch(w, t) ==
  IF isStaleText(w, t) THEN finishText(w, t, "stale")
  ELSE IF w.dom.text.gen = 0 THEN finishText(w, t, "noTextLayer")
  ELSE [noteTextWrite(w, t, "textLayer") EXCEPT
          !.dom.text.nodes = emptyElement(@),
          !.textRuns[t].div = w.dom.text.gen,
          !.textRuns[t].pc = "getPage",
          !.log.getPageCalls = @ + 1]

\* from the resolution of nextTick to the next await
afterNextTick(w, t) ==
  IF isStaleText(w, t) THEN finishText(w, t, "stale")
  ELSE IF w.dom.text.gen = 0 THEN finishText(w, t, "noTextLayer")
  ELSE
    LET w1 == [noteTextWrite(w, t, "textLayer") EXCEPT
                 !.dom.text.nodes = emptyElement(@),
                 !.textRuns[t].div = w.dom.text.gen]
    IN IF w1.inst.page
       THEN textLayerBody(w1, t)
       ELSE [w1 EXCEPT !.textRuns[t].pc = "getPage",
                       !.log.getPageCalls = @ + 1]

afterTextGetPage(w, t) ==
  IF isStaleText(w, t) THEN finishText(w, t, "stale")
  ELSE textLayerBody(w, t)

afterTextGetTextContent(w, t) ==
  IF isStaleText(w, t) THEN finishText(w, t, "stale")
  ELSE [nativeTextLayerRender(noteTextWrite(w, t, "textLayer"),
           w.textRuns[t].div, <<"renderTextLayerOnly", t, "native">>)
        EXCEPT !.textRuns[t].pc = "render"]

\* --------------------------------------------- watchers and rAF callbacks
\* a geometry watcher that re-renders whether or not the page is in the window
onGeometryPropsUnguarded(w) ==
  renderPage(cleanup(w), FALSE)

\* watch([scale, rotation, width, height])
onGeometryProps(w) ==
  IF shouldRender(w) THEN renderPage(cleanup(w), FALSE) ELSE w

\* watch(shouldRender)
onShouldRenderNoCleanup(w) ==
  IF shouldRender(w) THEN renderPage(w, FALSE) ELSE w

onShouldRender(w) ==
  IF shouldRender(w) THEN renderPage(w, FALSE) ELSE cleanup(w)

\* watch(props.textLayer), run before the DOM patch of the same flush
onTextLayer(w) ==
  IF ~shouldRender(w) THEN w
  ELSE IF w.props.textLayer THEN renderTextLayerOnly(w)
  ELSE [w EXCEPT !.dom.text.nodes = emptyElement(@)]

\* watch(props.textractBlocks)
onTextractBlocks(w) ==
  IF ~shouldRender(w) \/ ~w.props.textLayer THEN w
  ELSE renderTextLayerOnly(w)

\* the requestAnimationFrame callback of the zero-dimension retry
retryCallback(w) ==
  LET w1 == [w EXCEPT !.inst.pendingRetryRaf = FALSE, !.env.retryFrames = @ - 1] IN
  IF ~shouldRender(w1) THEN w1
  ELSE IF getContainerWidth(w1) > 0 THEN renderPage(cleanup(w1), TRUE)
  ELSE w1

\* a ResizeObserver callback that queues a recompute for every notification
resizeCallbackNoCoalesce(w) ==
  IF w.inst.resizeObserver = "setup" /\ heightDriven(w.props) THEN w
  ELSE [w EXCEPT !.inst.resizeRaf = TRUE, !.env.resizeFrames = @ + 1]

\* the ResizeObserver callbacks (installed by setup() / by the rebind)
resizeCallback(w) ==
  IF w.inst.resizeObserver = "setup" /\ heightDriven(w.props) THEN w
  ELSE IF w.inst.resizeRaf THEN w
  ELSE [w EXCEPT !.inst.resizeRaf = TRUE, !.env.resizeFrames = @ + 1]

\* a resize recompute that updates the page's css size and renders nothing
resizeTickRecomputeOnly(w) ==
  LET w1 == [w EXCEPT !.inst.resizeRaf = FALSE, !.env.resizeFrames = @ - 1]
      dims == IF w1.inst.pageRatio # <<0, 1>>
              THEN getPageDimensions(w1, w1.inst.pageRatio) ELSE <<0, 0>>
  IN IF dims[1] # 0 /\ dims[2] # 0
     THEN [w1 EXCEPT !.inst.pageWidth = dims[1], !.inst.pageHeight = dims[2]]
     ELSE w1

\* the requestAnimationFrame callback of the resize recompute
resizeTick(w) ==
  LET w1 == [w EXCEPT !.inst.resizeRaf = FALSE, !.env.resizeFrames = @ - 1]
      dims == IF w1.inst.pageRatio # <<0, 1>>
              THEN getPageDimensions(w1, w1.inst.pageRatio) ELSE <<0, 0>>
      w2 == IF dims[1] # 0 /\ dims[2] # 0
            THEN [w1 EXCEPT !.inst.pageWidth = dims[1], !.inst.pageHeight = dims[2]]
            ELSE w1
  IN IF shouldRender(w2) THEN renderPage(cleanup(w2), FALSE) ELSE w2

\* ------------------------------------------------------ setup, lifecycle
\* setup() up to `page = await props.doc.getPage(props.pageNum)`
setup(w) ==
  IF ~w.props.doc \/ w.env.life # "mounted" THEN w
  ELSE [w EXCEPT !.inst.setup = "getPage", !.log.getPageCalls = @ + 1]

\* resizeObserver?.disconnect()
disconnect(w) ==
  [w EXCEPT !.env.observing = {o \in @ : o[1] # w.inst.resizeObserver},
            !.inst.resizeObserver = "none"]

\* resizeObserver?.disconnect(); resizeObserver = new ResizeObserver(...);
\* resizeObserver.observe(getContainerElement())
installObserver(w, kind) ==
  LET w1 == disconnect(w)
      el == getContainerElement(w1)
  IN IF el = NoElement THEN w1
     ELSE [w1 EXCEPT !.env.observing = @ \cup {<<kind, el>>},
                     !.inst.resizeObserver = kind]

\* setup() from the resolution of getPage to its end
afterSetupGetPage(w) ==
  LET ratio == ratioOf(w)
      dims == getPageDimensions(w, ratio)
      ok == dims[1] > 0 /\ dims[2] > 0
  IN installObserver(
       [w EXCEPT !.inst.page = TRUE,
                 !.inst.pageRatio = ratio,
                 !.inst.pageWidth = IF ok THEN dims[1] ELSE Undefined,
                 !.inst.pageHeight = IF ok THEN dims[2] ELSE Undefined,
                 !.inst.observer = (w.env.life = "mounted"),
                 !.inst.setup = "done",
                 !.log.cleaned = 0], "setup")

\* emit('visibility-changed', {pageNum, isVisible})
emitVisibilityChanged(w, pageNum, visible) ==
  [w EXCEPT !.log.visibility =
     [first |-> IF @.first = <<>> THEN <<pageNum, visible>> ELSE @.first,
      prev |-> @.last,
      last |-> <<pageNum, visible>>]]

\* an IntersectionObserver callback that reports every entry
intersectionCallbackAlways(w, isIntersecting) ==
  emitVisibilityChanged([w EXCEPT !.inst.isVisible = isIntersecting],
                        w.props.pageNum, isIntersecting)

\* the IntersectionObserver callback installed by setup()
intersectionCallback(w, isIntersecting) ==
  LET wasVisible == w.inst.isVisible
      w1 == [w EXCEPT !.inst.isVisible = isIntersecting]
  IN IF w1.inst.isVisible # wasVisible
     THEN emitVisibilityChanged(w1, w1.props.pageNum, w1.inst.isVisible)
     ELSE w1

\* watch(props.parentRoot)
onParentRoot(w) ==
  IF heightDriven(w.props) THEN w
  ELSE IF getContainerElement(w) = NoElement THEN w
  ELSE installObserver(w, "rebound")

\* the overlay containers the template renders for the current props
patchLayer(layer, on) ==
  IF on
  THEN (IF layer.gen = 0 THEN [gen |-> layer.last + 1, last |-> layer.last + 1, nodes |-> {}]
        ELSE layer)
  ELSE [layer EXCEPT !.gen = 0, !.nodes = {}]

patchDom(w) ==
  [w EXCEPT !.dom.text = patchLayer(@, w.props.textLayer),
            !.dom.annot = patchLayer(@, w.props.annotationLayer),
            !.dom.form = patchLayer(@, w.props.formLayer)]

\* script setup (the immediate watcher), mount, onMounted
mount(w) ==
  LET w1 == onShouldRender(w)
      w2 == patchDom([w1 EXCEPT !.env.life = "mounted",
                                !.dom.canvas = Undefined,
                                !.log.cleaned = 0])
  IN IF w2.props.doc THEN setup(w2) ELSE [w2 EXCEPT !.inst.setup = "waitDoc"]

\* onBeforeUnmount, then the removal of the element
onBeforeUnmount(w) ==
  LET w1 == [disconnect(w) EXCEPT
               !.inst.isDestroyed = TRUE,
               !.inst.observer = FALSE,
               !.inst.resizeRaf = FALSE,
               !.env.resizeFrames = IF w.inst.resizeRaf THEN @ - 1 ELSE @,
               !.inst.pendingRetryRaf = FALSE,
               !.env.retryFrames = IF w.inst.pendingRetryRaf THEN @ - 1 ELSE @]
      w2 == cleanup(w1)
  IN [w2 EXCEPT !.env.life = "unmounted",
                !.dom.canvas = 0,
                !.dom.text = patchLayer(@, FALSE),
                !.dom.annot = patchLayer(@, FALSE),
                !.dom.form = patchLayer(@, FALSE)]

\* ------------------------------------------------------------ the system
NoScenario == [kind |-> "none", get |-> 0, raster |-> 0, text |-> 0]

Scenario(w, kind) ==
  [kind |-> kind, get |-> w.log.getPageCalls, raster |-> w.log.rasterCalls,
   text |-> w.log.nativeTextCalls]

\* an external signal, or a step of the provider, named `name`
step(w, name) == w
signal(w, name) ==
  [w EXCEPT !.log.scn = NoScenario, !.env.signals = @ + 1]
fault(w, name) ==
  [w EXCEPT !.log.scn = NoScenario, !.env.faults = @ + 1]

\* The props a page is constructed with.  The document, an explicit height
\* and a rotation arrive by later prop changes.
NoVisibility == [first |-> <<>>, prev |-> <<>>, last |-> <<>>]
NoCalc == [op |-> "none", in |-> <<>>, out |-> <<>>, turns |-> 0]

NoSched ==
  [numPages |-> 0, visiblePages |-> {}, pagesToRender |-> {},
   last |-> <<0, FALSE>>, handled |-> FALSE,
   page |-> Undefined, activeSection |-> <<>>, emitted |-> {}]

InitProps ==
  {p \in [doc : {TRUE}, inWindow : BOOLEAN, textLayer : BOOLEAN,
          annotationLayer : BOOLEAN, formLayer : BOOLEAN,
          textractBlocks : BOOLEAN, width : WidthValues, height : HeightValues,
          rotation : {0}, scale : {1}, parentRoot : {1}, pageNum : {1}] :
     /\ p.textractBlocks => p.textLayer
     /\ p.formLayer => p.annotationLayer
     /\ p.height # Undefined => p.width = Undefined}

NoLayer == [gen |-> 0, last |-> 0, nodes |-> {}]

\* the state after construction, for the given props and budget of signals
InitWith(P, budget) ==
  /\ props \in P
  /\ env \in [containerWidth : {0, 2}, hasContext : BOOLEAN,
               life : {"created"}, retryFrames : {0}, resizeFrames : {0},
               observing : {{}}, signals : {0}, faults : {0},
               budget : {budget}]
  /\ inst = [renderToken |-> 0, textLayerRenderToken |-> 0,
             isDestroyed |-> FALSE, isRendered |-> FALSE, renderingTask |-> 0,
             page |-> FALSE, pendingRetryRaf |-> FALSE, resizeRaf |-> FALSE,
             pageWidth |-> Undefined, pageHeight |-> Undefined,
             pageRatio |-> <<0, 1>>, resizeObserver |-> "none",
             observer |-> FALSE, isVisible |-> FALSE, setup |-> "idle"]
  /\ dom = [canvas |-> 0, text |-> NoLayer, annot |-> NoLayer, form |-> NoLayer]
  /\ runs = [t \in Tokens |-> NoRun]
  /\ textRuns = [t \in TextTokens |-> NoTextRun]
  /\ log = [rendered |-> [t \in Tokens |-> 0], failed |-> {},
            getPageCalls |-> 0, rasterCalls |-> 0, nativeTextCalls |-> 0,
            ocrCalls |-> 0, annotCalls |-> 0, staleWrites |-> {},
            rasterOutside |-> FALSE, rasterStale |-> FALSE,
            nativeWhileOcr |-> FALSE, retryByRetry |-> FALSE,
            cleaned |-> 0, coalesced |-> FALSE, scn |-> NoScenario,
            visibility |-> NoVisibility]
  /\ sched = NoSched
  /\ calc = NoCalc

Init == InitWith(InitProps, MaxSignals)

Commit(w) ==
  /\ w.inst.renderToken <= MaxToken
  /\ w.inst.textLayerRenderToken <= MaxTextToken
  /\ w.dom.text.last <= MaxGen
  /\ w.dom.annot.last <= MaxGen
  /\ w.dom.form.last <= MaxGen
  /\ w.env.signals <= w.env.budget
  /\ w.env.faults <= MaxFaults
  /\ props' = w.props /\ env' = w.env /\ inst' = w.inst /\ dom' = w.dom
  /\ runs' = w.runs /\ textRuns' = w.textRuns /\ log' = w.log
  /\ UNCHANGED <<sched, calc>>

Mounted == env.life = "mounted"

\* the page has finished a render and nothing of it is in flight
Settled(w) ==
  /\ w.env.life = "mounted" /\ w.props.inWindow /\ w.inst.isRendered
  /\ w.inst.setup = "done"
  /\ w.env.retryFrames = 0 /\ w.env.resizeFrames = 0
  /\ \A t \in Tokens : w.runs[t].pc \in {"none", "done"}
  /\ \A t \in TextTokens : w.textRuns[t].pc \in {"none", "done"}

Mount ==
  /\ env.life = "created"
  /\ Commit(mount(step(World, "mount")))

Unmount ==
  /\ Mounted
  /\ Commit(onBeforeUnmount([step(World, "unmount") EXCEPT !.log.scn = NoScenario]))

SetWidth ==
  /\ Mounted
  /\ \E v \in WidthValues \ {props.width} :
        Commit(onGeometryProps(signal([World EXCEPT !.props.width = v], "width")))

SetHeight ==
  /\ Mounted
  /\ \E v \in HeightValues \ {props.height} :
        Commit(onGeometryProps(signal([World EXCEPT !.props.height = v], "height")))

SetRotation ==
  /\ Mounted
  /\ \E v \in RotationValues \ {props.rotation} :
        Commit(onGeometryProps(signal([World EXCEPT !.props.rotation = v], "rotation")))

SetScale ==
  /\ Mounted
  /\ \E v \in ScaleValues \ {props.scale} :
        Commit(onGeometryProps(signal([World EXCEPT !.props.scale = v], "scale")))

\* the external container reference changes identity
SetParentRoot ==
  /\ Mounted
  /\ \E v \in ParentRoots \ {props.parentRoot} :
        Commit(onParentRoot(signal([World EXCEPT !.props.parentRoot = v], "parentRoot")))

\* pagesToRender gains or loses this page's number
SetPagesToRender ==
  /\ Mounted
  /\ Commit(onShouldRender(
        signal([World EXCEPT !.props.inWindow = ~props.inWindow], "pagesToRender")))

SetTextLayer ==
  /\ Mounted
  /\ LET w0 == [World EXCEPT !.props.textLayer = ~props.textLayer]
         w1 == signal(w0, "textLayer")
         w2 == IF w0.props.textLayer /\ w0.props.inWindow /\ w0.props.doc
                  /\ ~w0.props.textractBlocks
               THEN [w1 EXCEPT !.log.scn = Scenario(w0, "textOn")]
               ELSE w1
     IN Commit(patchDom(onTextLayer(w2)))

SetTextractBlocks ==
  /\ Mounted
  /\ LET w0 == [World EXCEPT !.props.textractBlocks = ~props.textractBlocks]
         w1 == signal(w0, "textractBlocks")
         w2 == IF w0.props.textLayer /\ w0.props.inWindow /\ w0.props.doc
               THEN [w1 EXCEPT !.log.scn =
                       Scenario(w0, IF w0.props.textractBlocks
                                    THEN "ocrOn" ELSE "ocrOff")]
               ELSE w1
     IN Commit(onTextractBlocks(w2))

SetAnnotationLayer ==
  /\ Mounted
  /\ Commit(patchDom(
        signal([World EXCEPT !.props.annotationLayer = ~props.annotationLayer],
               "annotationLayer")))

SetFormLayer ==
  /\ Mounted
  /\ Commit(patchDom(
        signal([World EXCEPT !.props.formLayer = ~props.formLayer], "formLayer")))

\* the container is laid out at width v; a connected observer is notified
\* a notification that arrives while the callback's recompute is still queued
joinsQueuedRecompute(w) ==
  /\ w.inst.resizeObserver # "none"
  /\ ~(w.inst.resizeObserver = "setup" /\ heightDriven(w.props))
  /\ w.inst.resizeRaf

\* the connected observer is notified when the element it observes changes
\* size: the effective container taking width v, or an element the observer
\* was left on (the effective container then keeps its width)
notifies(w, v) ==
  \E o \in w.env.observing :
     o[2] = getContainerElement(w) \/ v = w.env.containerWidth

ContainerResize ==
  /\ env.life # "created"
  /\ \E v \in ContainerWidths :
       LET w0 == [World EXCEPT !.env.containerWidth = v]
           w1 == IF Settled(World) /\ notifies(World, v)
                 THEN [w0 EXCEPT !.env.signals = @ + 1,
                                 !.log.coalesced = FALSE,
                                 !.log.scn = Scenario(World, "resize")]
                 ELSE IF joinsQueuedRecompute(World) /\ notifies(World, v)
                 THEN [w0 EXCEPT !.log.coalesced = TRUE, !.log.scn = NoScenario]
                 ELSE [signal(w0, "resize") EXCEPT !.log.coalesced = FALSE]
       IN /\ (v # env.containerWidth \/ notifies(World, v))
          /\ Commit(IF notifies(World, v) THEN resizeCallback(w1) ELSE w1)

ResizeFrame ==
  /\ env.resizeFrames > 0
  /\ Commit(resizeTick(step(World, "resizeFrame")))

RetryFrame ==
  /\ env.retryFrames > 0
  /\ Commit(retryCallback(step(World, "retryFrame")))

\* ----------------------------------------- the provider and the backend
SetupGetPageResolves ==
  /\ inst.setup = "getPage"
  /\ Commit(afterSetupGetPage(step(World, "setup")))

GetPageResolves ==
  \E t \in Tokens :
    /\ runs[t].pc = "getPage"
    /\ Commit(afterGetPage(step(World, "renderPage"), t))

GetTextContentResolves ==
  \E t \in Tokens :
    /\ runs[t].pc = "getTextContent"
    /\ Commit(afterGetTextContent(step(World, "renderPage"), t))

GetAnnotationsResolves ==
  \E t \in Tokens :
    /\ runs[t].pc = "getAnnotations"
    /\ Commit(afterGetAnnotations(step(World, "renderPage"), t))

\* getPage, getTextContent or getAnnotations rejects
ProviderRejects ==
  \E t \in Tokens :
    /\ runs[t].pc \in {"getPage", "getTextContent", "getAnnotations"}
    /\ Commit(outerCatch(fault(World, "renderPage"), t))

RasterResolves ==
  \E t \in Tokens :
    /\ runs[t].raster = "pending"
    /\ Commit([step(World, "raster") EXCEPT !.runs[t].raster = "resolved"])

\* the raster task rejects with an error other than the cancellation
RasterRejects ==
  \E t \in Tokens :
    /\ runs[t].raster = "pending"
    /\ Commit(handleRenderError(
                [fault(World, "raster") EXCEPT !.runs[t].raster = "error"],
                t, "rasterCatch", "Error"))

TextTaskSettles ==
  \E t \in Tokens : \E r \in {"resolved", "error"} :
    /\ runs[t].text = "pending"
    /\ Commit([(IF r = "error" THEN fault(World, "text") ELSE step(World, "text"))
                 EXCEPT !.runs[t].text = r])

AnnotationTaskSettles ==
  \E t \in Tokens : \E r \in {"resolved", "error"} :
    /\ runs[t].annot = "pending"
    /\ Commit([(IF r = "error" THEN fault(World, "annot") ELSE step(World, "annot"))
                 EXCEPT !.runs[t].annot = r])

PromiseAllSettles ==
  \E t \in Tokens :
    /\ runs[t].pc = "all"
    /\ allRejected(runs[t]) \/ allResolved(runs[t])
    /\ Commit(afterPromiseAll(step(World, "renderPage"), t))

NextTickResolves ==
  \E t \in TextTokens :
    /\ textRuns[t].pc = "nextTick"
    /\ Commit(afterNextTick(step(World, "renderTextLayerOnly"), t))

TextGetPageResolves ==
  \E t \in TextTokens :
    /\ textRuns[t].pc = "getPage"
    /\ Commit(afterTextGetPage(step(World, "renderTextLayerOnly"), t))

TextGetTextContentResolves ==
  \E t \in TextTokens :
    /\ textRuns[t].pc = "getTextContent"
    /\ Commit(afterTextGetTextContent(step(World, "renderTextLayerOnly"), t))

\* `await new TextLayer(...).render()` settles: nothing follows it
TextRenderSettles ==
  \E t \in TextTokens :
    /\ textRuns[t].pc = "render"
    /\ Commit(finishText(step(World, "renderTextLayerOnly"), t, "native"))

\* a rejection inside renderTextLayerOnly() leaves the async watcher
TextProviderRejects ==
  \E t \in TextTokens :
    /\ textRuns[t].pc \in {"getPage", "getTextContent", "render"}
    /\ Commit(finishText(fault(World, "renderTextLayerOnly"), t,
                          IF SupersededText(World, t) THEN "threwStale" ELSE "threw"))

Next ==
  \/ Mount \/ Unmount
  \/ SetWidth \/ SetHeight \/ SetRotation \/ SetScale \/ SetPagesToRender
  \/ SetParentRoot
  \/ SetTextLayer \/ SetTextractBlocks \/ SetAnnotationLayer \/ SetFormLayer
  \/ ContainerResize \/ ResizeFrame \/ RetryFrame
  \/ SetupGetPageResolves
  \/ GetPageResolves \/ GetTextContentResolves \/ GetAnnotationsResolves
  \/ ProviderRejects \/ RasterResolves \/ RasterRejects
  \/ TextTaskSettles \/ AnnotationTaskSettles \/ PromiseAllSettles
  \/ NextTickResolves \/ TextGetPageResolves \/ TextGetTextContentResolves
  \/ TextRenderSettles \/ TextProviderRejects

Spec == Init /\ [][Next]_vars

\* ---------------------------------------- the resize observer on its own
\* a page without overlays, followed through more prop changes and resize
\* notifications than Spec affords; its render passes are started and never
\* resumed
MaxObsSignals == 3

ObsInitProps ==
  {p \in [doc : {TRUE}, inWindow : BOOLEAN, textLayer : {FALSE},
          annotationLayer : {FALSE}, formLayer : {FALSE},
          textractBlocks : {FALSE}, width : WidthValues, height : HeightValues,
          rotation : {0}, scale : {1}, parentRoot : {NoElement, 1},
          pageNum : PageNums] :
     p.height # Undefined => p.width = Undefined}

ObsInit ==
  /\ InitWith(ObsInitProps, MaxObsSignals)
  /\ env.containerWidth = 2 /\ env.hasContext

\* the IntersectionObserver delivers an entry for the observed root
Intersects ==
  /\ inst.observer
  /\ \E isIntersecting \in BOOLEAN :
       Commit(intersectionCallback(step(World, "intersection"), isIntersecting))

ObsNext ==
  \/ Mount \/ Unmount \/ Intersects
  \/ SetWidth \/ SetHeight \/ SetPagesToRender \/ SetParentRoot
  \/ ContainerResize \/ ResizeFrame
  \/ SetupGetPageResolves

ObsSpec == ObsInit /\ [][ObsNext]_vars

\* ------------------------------------- a page with its form layer, longer
\* one page with the annotation and form layers on, followed through two prop
\* changes or resize notifications
MaxFormSignals == 2

FormInitProps ==
  {p \in InitProps :
     /\ p.inWindow /\ p.annotationLayer /\ p.formLayer /\ ~p.textLayer
     /\ p.width = Undefined /\ p.height = Undefined}

FormInit ==
  /\ InitWith(FormInitProps, MaxFormSignals)
  /\ env.containerWidth = 2 /\ env.hasContext

FormSpec == FormInit /\ [][Next]_vars

\* ------------------------------------------- VuePdfEmbed, the scheduler
MaxPages == 4         \* pages of the largest document

\* onVisibilityChanged({pageNum, isVisible}); numPages = 0 is `doc.value` unset
onVisibilityChangedUnclipped(sc, pageNum, isVisible) ==
  LET visible == IF isVisible THEN sc.visiblePages \cup {pageNum}
                 ELSE sc.visiblePages \ {pageNum}
  IN [sc EXCEPT
        !.visiblePages = visible,
        !.pagesToRender =
           UNION {{n \in {v - 1, v, v + 1} : n > 0} : v \in visible},
        !.last = <<pageNum, isVisible>>,
        !.handled = TRUE]

onVisibilityChanged(sc, pageNum, isVisible) ==
  LET visible == IF isVisible THEN sc.visiblePages \cup {pageNum}
                 ELSE sc.visiblePages \ {pageNum}
  IN [sc EXCEPT
        !.visiblePages = visible,
        !.pagesToRender =
           UNION {{n \in {v - 1, v, v + 1} :
                     n > 0 /\ sc.numPages # 0 /\ n <= sc.numPages} : v \in visible},
        !.last = <<pageNum, isVisible>>,
        !.handled = TRUE]

\* props.page and props.activeSection (<<first_page, last_page>>, or <<>>)
PageValues == {Undefined} \cup (1..(MaxPages + 1))
Sections == {<<>>, <<1, 2>>, <<2, MaxPages + 1>>, <<3, 3>>}
RootId == "ID"

\* a section range that is not clipped to the document
pageNumsUnclipped(sc) ==
  IF sc.numPages = 0 THEN {}
  ELSE IF sc.page # Undefined /\ sc.page # 0 THEN {sc.page}
  ELSE IF sc.activeSection # <<>>
       THEN sc.activeSection[1]..sc.activeSection[2]
  ELSE 1..sc.numPages

\* the computed pageNums; numPages = 0 is `doc.value` unset
pageNums(sc) ==
  IF sc.numPages = 0 THEN {}
  ELSE IF sc.page # Undefined /\ sc.page # 0 THEN {sc.page}
  ELSE IF sc.activeSection # <<>>
       THEN sc.activeSection[1]..Min(sc.activeSection[2], sc.numPages)
  ELSE 1..sc.numPages

\* the v-for of the template: one PdfPage per page number, with its id
pageElements(sc) ==
  {(IF RootId = "" THEN <<"", 0>> ELSE <<RootId, pageNum>>) : pageNum \in pageNums(sc)}

\* a document watcher that reports whatever `doc` has become
onDocAlways(sc) == [sc EXCEPT !.emitted = @ \cup {<<"loaded", sc.numPages>>}]

\* watch(doc, ..., { immediate: true })
onDoc(sc) ==
  IF sc.numPages # 0
  THEN [sc EXCEPT !.emitted = @ \cup {<<"loaded", sc.numPages>>}]
  ELSE sc

\* watch(() => pageNums.value, ..., { immediate: true })
onPageNums(sc) ==
  IF pageNums(sc) # {}
  THEN [sc EXCEPT !.emitted = @ \cup {<<"rendered", 0>>}]
  ELSE sc

SchedInit ==
  /\ Init
  /\ props = [doc |-> TRUE, inWindow |-> FALSE, textLayer |-> FALSE,
              annotationLayer |-> FALSE, formLayer |-> FALSE,
              textractBlocks |-> FALSE, width |-> Undefined, height |-> Undefined,
              rotation |-> 0, scale |-> 1, parentRoot |-> 1, pageNum |-> 1]
  /\ env.containerWidth = 0 /\ env.hasContext

\* the source changes: another document (or none) becomes `doc.value`
DocChanges ==
  \E n \in 0..MaxPages :
    /\ n # sched.numPages
    /\ sched' = onPageNums(onDoc([sched EXCEPT !.numPages = n, !.handled = FALSE,
                                                !.emitted = {}]))
    /\ UNCHANGED <<props, env, inst, dom, runs, textRuns, log, calc>>

\* a mounted page reports a visibility transition
VisibilityChanged ==
  \E pageNum \in pageNums(sched) : \E isVisible \in BOOLEAN :
    /\ sched' = onVisibilityChanged([sched EXCEPT !.emitted = {}], pageNum, isVisible)
    /\ UNCHANGED <<props, env, inst, dom, runs, textRuns, log, calc>>

\* the parent changes `page` (single-page mode)
SetPage ==
  \E page \in PageValues :
    /\ page # sched.page
    /\ sched' = onPageNums([sched EXCEPT !.page = page, !.handled = FALSE,
                                         !.emitted = {}])
    /\ UNCHANGED <<props, env, inst, dom, runs, textRuns, log, calc>>

\* the parent changes `activeSection`
SetActiveSection ==
  \E section \in Sections :
    /\ section # sched.activeSection
    /\ sched' = onPageNums([sched EXCEPT !.activeSection = section,
                                         !.handled = FALSE, !.emitted = {}])
    /\ UNCHANGED <<props, env, inst, dom, runs, textRuns, log, calc>>

SchedNext == DocChanges \/ VisibilityChanged \/ SetPage \/ SetActiveSection

SchedSpec == SchedInit /\ [][SchedNext]_vars

\* ------------------------------------------ the geometry, as functions
Grid == 2             \* bounding-box coordinates are multiples of 1/Grid
MaxTurns == 4         \* quarter turns applied to one bounding box

\* JavaScript's %: the result has the sign of the dividend
jsRem(a, b) == IF a >= 0 THEN a % b ELSE 0 - ((0 - a) % b)

normalizeRotation(rotation) ==
  LET r == jsRem(jsRem(rotation, 360) + 360, 360) IN
  IF r = 90 \/ r = 180 \/ r = 270 THEN r ELSE 0

\* a 90-degree case that forgets the height of the box
mapTextractBBoxNoHeight(bbox, rotation) ==
  LET rot == normalizeRotation(rotation) IN
  CASE rot = 90 ->
         [Left |-> Grid - bbox.Top, Top |-> bbox.Left,
          Width |-> bbox.Height, Height |-> bbox.Width]
    [] rot = 180 ->
         [Left |-> Grid - (bbox.Left + bbox.Width),
          Top |-> Grid - (bbox.Top + bbox.Height),
          Width |-> bbox.Width, Height |-> bbox.Height]
    [] rot = 270 ->
         [Left |-> bbox.Top, Top |-> Grid - (bbox.Left + bbox.Width),
          Width |-> bbox.Height, Height |-> bbox.Width]
    [] OTHER -> bbox

\* a mapper whose 270-degree case is the 90-degree case
mapTextractBBoxQuarterTurnsAlike(bbox, rotation) ==
  LET rot == normalizeRotation(rotation) IN
  CASE rot = 90 \/ rot = 270 ->
         [Left |-> Grid - (bbox.Top + bbox.Height), Top |-> bbox.Left,
          Width |-> bbox.Height, Height |-> bbox.Width]
    [] rot = 180 ->
         [Left |-> Grid - (bbox.Left + bbox.Width),
          Top |-> Grid - (bbox.Top + bbox.Height),
          Width |-> bbox.Width, Height |-> bbox.Height]
    [] OTHER -> bbox

\* mapTextractBBoxForRotation(bbox, rotation); the normalized 1 is Grid
mapTextractBBoxForRotation(bbox, rotation) ==
  LET rot == normalizeRotation(rotation) IN
  CASE rot = 90 ->
         [Left |-> Grid - (bbox.Top + bbox.Height), Top |-> bbox.Left,
          Width |-> bbox.Height, Height |-> bbox.Width]
    [] rot = 180 ->
         [Left |-> Grid - (bbox.Left + bbox.Width),
          Top |-> Grid - (bbox.Top + bbox.Height),
          Width |-> bbox.Width, Height |-> bbox.Height]
    [] rot = 270 ->
         [Left |-> bbox.Top, Top |-> Grid - (bbox.Left + bbox.Width),
          Width |-> bbox.Height, Height |-> bbox.Width]
    [] OTHER -> bbox

BBox(t) == [Left |-> t[1], Top |-> t[2], Width |-> t[3], Height |-> t[4]]
BBoxTuple(b) == <<b.Left, b.Top, b.Width, b.Height>>

\* normalized boxes that lie inside the page
BBoxes ==
  {t \in (0..Grid) \X (0..Grid) \X (0..Grid) \X (0..Grid) :
     t[1] + t[3] <= Grid /\ t[2] + t[4] <= Grid}

RotationArgs == {0 - 90, 0, 90, 180, 270, 450}

\* a Textract LINE block with bounding box t is given to the mapper
TakeBBox ==
  \E t \in BBoxes :
    /\ calc' = [op |-> "bbox", in |-> t, out |-> t, turns |-> 0]
    /\ UNCHANGED <<props, env, inst, dom, runs, textRuns, log, sched>>

\* the mapped box is mapped again
MapBBox ==
  \E rotation \in RotationArgs :
    LET k == normalizeRotation(rotation) \div 90 IN
    /\ calc.op = "bbox"
    /\ calc.turns + k <= MaxTurns
    /\ calc' = [calc EXCEPT
                  !.out = BBoxTuple(mapTextractBBoxForRotation(BBox(calc.out), rotation)),
                  !.turns = @ + k]
    /\ UNCHANGED <<props, env, inst, dom, runs, textRuns, log, sched>>

\* getPageDimensions(ratio) for given sizing props and container width
DimWidths == {Undefined, 0, 2, 6}
DimHeights == {Undefined, 0, 4}
Ratios == {<<4, 2>>, <<2, 4>>, <<1, 1>>}

ComputeDimensions ==
  \E width \in DimWidths : \E height \in DimHeights :
  \E containerWidth \in ContainerWidths : \E ratio \in Ratios :
    LET w == [World EXCEPT !.props.width = width, !.props.height = height,
                           !.env.containerWidth = containerWidth,
                           !.env.life = "mounted"]
    IN /\ calc' = [op |-> "dims",
                   in |-> <<width, height, containerWidth, ratio[1], ratio[2]>>,
                   out |-> getPageDimensions(w, ratio), turns |-> 0]
       /\ UNCHANGED <<props, env, inst, dom, runs, textRuns, log, sched>>

\* the scale computation of renderPage(); scales are <<numerator, denominator>>
Views == {<<0, 0, 600, 800>>, <<0, 0, 800, 600>>}
CssWidths == {300, 600}
DevicePixelRatios == {1, 2}
PageRotations == {0, 90, 180}

\* !!((pageRotation / 90) % 2) with pageRotation = rotation % 360
isTransposedAt(rotation) == ((jsRem(rotation, 360) \div 90) % 2) # 0

\* a page width that ignores the transposition
pageWidthInPDFUntransposed(transposed, view) == view[3] - view[1]

\* isTransposed ? viewHeight : viewWidth
pageWidthInPDF(transposed, view) ==
  IF transposed THEN view[4] - view[2] ELSE view[3] - view[1]

\* actualWidth / pageWidthInPDF
pageScale(actualWidth, widthInPDF) == <<actualWidth, widthInPDF>>

\* viewport.scale * (window.devicePixelRatio || 1) * (props.scale || 1)
adjustedScale(scale, devicePixelRatio, scaleProp) ==
  <<scale[1] * (IF devicePixelRatio = 0 THEN 1 ELSE devicePixelRatio)
             * (IF scaleProp = 0 THEN 1 ELSE scaleProp),
    scale[2]>>

\* width and height of a viewport of the page at `scale` (computed by the
\* provider): the rotated page box times the scale
viewportSize(view, transposed, scale) ==
  LET w == view[3] - view[1]
      h == view[4] - view[2]
  IN IF transposed
     THEN <<(h * scale[1]) \div scale[2], (w * scale[1]) \div scale[2]>>
     ELSE <<(w * scale[1]) \div scale[2], (h * scale[1]) \div scale[2]>>

\* viewport.clone({ dontFlip: true }): the scale of `viewport` is kept
layerViewportScale(scale) == scale

ComputeScale ==
  \E view \in Views : \E rotation \in PageRotations : \E actualWidth \in CssWidths :
  \E dpr \in DevicePixelRatios : \E scaleProp \in ScaleValues :
    LET transposed == isTransposedAt(rotation)
        scale == pageScale(actualWidth, pageWidthInPDF(transposed, view))
        adjusted == adjustedScale(scale, dpr, scaleProp)
        canvas == viewportSize(view, transposed, adjusted)
        layer == layerViewportScale(scale)
    IN /\ calc' = [op |-> "scale",
                   in |-> <<view[3] - view[1], view[4] - view[2], rotation,
                            actualWidth, dpr, scaleProp>>,
                   out |-> <<scale[1], scale[2], canvas[1], canvas[2],
                             layer[1], layer[2]>>,
                   turns |-> 0]
       /\ UNCHANGED <<props, env, inst, dom, runs, textRuns, log, sched>>

\* the effective rotation of setup(), renderPage() and renderTextLayerOnly()
RequestedRotations == {0 - 450, 0 - 90, 0, 90, 180, 270, 360, 450}
IntrinsicRotations == {0, 90, 180, 270}

\* ((props.rotation % 360) + page.rotate) % 360
effectiveRotation(rotation, rotate) == jsRem(jsRem(rotation, 360) + rotate, 360)

\* !!((pageRotation / 90) % 2)
isTransposedFor(rot) == jsRem(rot \div 90, 2) # 0

ComputeRotation ==
  \E rotation \in RequestedRotations : \E rotate \in IntrinsicRotations :
    LET rot == effectiveRotation(rotation, rotate) IN
    /\ calc' = [op |-> "rotation", in |-> <<rotation, rotate>>,
                out |-> <<rot, IF isTransposedFor(rot) THEN 1 ELSE 0>>,
                turns |-> 0]
    /\ UNCHANGED <<props, env, inst, dom, runs, textRuns, log, sched>>

\* renderFormFields(formLayerDiv, annotations, viewport, annotationLayerViewport)
MaxAnnotations == 2   \* annotations fetched for one page
FormScale == 2        \* scale of the annotation layer viewport
FormViewportHeight == 12

\* annotation.rect of the i-th annotation of the page, <<x1, y1, x2, y2>>
rectOf(i) == <<i - 1, i, i + 1, i + 3>>

AnnotationKinds ==
  [subtype : {"Widget"}, fieldType : {"Tx", "Sig", "Unknown"},
   checkBox : {FALSE}, radioButton : {FALSE}, combo : {FALSE}]
  \cup [subtype : {"Widget"}, fieldType : {"Btn"},
        checkBox : BOOLEAN, radioButton : BOOLEAN, combo : {FALSE}]
  \cup [subtype : {"Widget"}, fieldType : {"Ch"},
        checkBox : {FALSE}, radioButton : {FALSE}, combo : BOOLEAN]
  \cup [subtype : {"Link"}, fieldType : {"Tx", "Unknown"},
        checkBox : {FALSE}, radioButton : {FALSE}, combo : {FALSE}]

\* the category switch with the radio button test ahead of the checkbox test
fieldCategoryRadioFirst(annotation) ==
  IF annotation.subtype # "Widget" THEN "null"
  ELSE CASE annotation.fieldType = "Tx" -> "Text Field"
         [] annotation.fieldType = "Btn" ->
              IF annotation.radioButton THEN "Radio Button"
              ELSE IF annotation.checkBox THEN "Checkbox"
              ELSE "Push Button"
         [] annotation.fieldType = "Ch" ->
              IF annotation.combo THEN "Combo Box" ELSE "List Box"
         [] annotation.fieldType = "Sig" -> "Signature Field"
         [] OTHER -> "Unknown Field Type"

\* fieldCategory of `annotations.map(...)`; "null" stands for null
fieldCategory(annotation) ==
  IF annotation.subtype # "Widget" THEN "null"
  ELSE CASE annotation.fieldType = "Tx" -> "Text Field"
         [] annotation.fieldType = "Btn" ->
              IF annotation.checkBox THEN "Checkbox"
              ELSE IF annotation.radioButton THEN "Radio Button"
              ELSE "Push Button"
         [] annotation.fieldType = "Ch" ->
              IF annotation.combo THEN "Combo Box" ELSE "List Box"
         [] annotation.fieldType = "Sig" -> "Signature Field"
         [] OTHER -> "Unknown Field Type"

\* annotationLayerViewport.convertToViewportRectangle(rect), computed by the
\* provider: the rectangle in the unflipped viewport at FormScale
convertToViewportRectangle(rect) ==
  <<rect[1] * FormScale, rect[2] * FormScale, rect[3] * FormScale, rect[4] * FormScale>>

\* the div appended for one transformed annotation
formFieldDiv(annotation, rect, viewportHeight) ==
  LET r == convertToViewportRectangle(rect) IN
  [left |-> r[1], top |-> viewportHeight - r[4],
   width |-> r[3] - r[1], height |-> r[4] - r[2],
   fieldCategory |-> fieldCategory(annotation)]

\* the children of the form layer after `transformedAnnotations.forEach(...)`
RECURSIVE formFieldDivs(_, _)
formFieldDivs(annotations, viewportHeight) ==
  IF annotations = <<>> THEN <<>>
  ELSE LET a == Head(annotations)
           rest == formFieldDivs(Tail(annotations), viewportHeight)
       IN IF fieldCategory(a.annotation) # "null"
          THEN <<formFieldDiv(a.annotation, a.rect, viewportHeight)>> \o rest
          ELSE rest

AnnotationLists ==
  UNION {{[i \in 1..n |-> [annotation |-> kinds[i], rect |-> rectOf(i)]] :
            kinds \in [1..n -> AnnotationKinds]} : n \in 0..MaxAnnotations}

ComputeFormFields ==
  \E annotations \in AnnotationLists :
    /\ calc' = [op |-> "form", in |-> annotations,
                out |-> formFieldDivs(annotations, FormViewportHeight),
                turns |-> 0]
    /\ UNCHANGED <<props, env, inst, dom, runs, textRuns, log, sched>>

\* renderTextractTextLayer({container, textractBlocks, pageNum, rotation})
MaxBlocks == 2        \* entries of textract_blocks


\* what a block can be: its type, its page, and whether it carries a text
\* and a bounding box
BlockKinds ==
  [BlockType : {"LINE"}, Page : PageNums, text : {TRUE}, bbox : {TRUE}]
  \cup [BlockType : {"WORD"}, Page : {1}, text : {TRUE}, bbox : {TRUE}]
  \cup [BlockType : {"LINE"}, Page : {1}, text : {FALSE}, bbox : {TRUE}]
  \cup [BlockType : {"LINE"}, Page : {1}, text : {TRUE}, bbox : {FALSE}]

\* the i-th block of the response: its Text is i (0 stands for no text), its
\* bounding box the i-th line of the page (<<>> stands for no box)
blockOf(kind, i) ==
  [BlockType |-> kind.BlockType, Page |-> kind.Page,
   Text |-> IF kind.text THEN i ELSE 0,
   BoundingBox |-> IF kind.bbox THEN <<0, (i - 1) % Grid, Grid, 1>> ELSE <<>>]

BlockLists ==
  UNION {{[i \in 1..n |-> blockOf(kinds[i], i)] : kinds \in [1..n -> BlockKinds]} :
           n \in 0..MaxBlocks}

\* the span appended for one placed block
textractSpan(block, rotation) ==
  [textContent |-> block.Text,
   box |-> BBoxTuple(mapTextractBBoxForRotation(BBox(block.BoundingBox), rotation))]

\* a loop that places the LINE blocks of every page
textractSpansAnyPage(blocks, pageNum, rotation) ==
  LET RECURSIVE walk(_)
      walk(bs) ==
        IF bs = <<>> THEN <<>>
        ELSE LET block == Head(bs) IN
             IF block.BlockType # "LINE" THEN walk(Tail(bs))
             ELSE IF block.Text = 0 \/ block.BoundingBox = <<>> THEN walk(Tail(bs))
             ELSE <<textractSpan(block, rotation)>> \o walk(Tail(bs))
  IN walk(blocks)

\* `for (const block of blocks)`: the spans appended, in order
textractSpans(blocks, pageNum, rotation) ==
  LET RECURSIVE walk(_)
      walk(bs) ==
        IF bs = <<>> THEN <<>>
        ELSE LET block == Head(bs) IN
             IF block.BlockType # "LINE" THEN walk(Tail(bs))
             ELSE IF block.Page # pageNum THEN walk(Tail(bs))
             ELSE IF block.Text = 0 \/ block.BoundingBox = <<>> THEN walk(Tail(bs))
             ELSE <<textractSpan(block, rotation)>> \o walk(Tail(bs))
  IN walk(blocks)

\* the children of `container` after the call: emptyElement(container), then
\* the appended spans
textractChildren(children, blocks, pageNum, rotation) ==
  LET emptied == SubSeq(children, 1, 0)
  IN emptied \o textractSpans(blocks, pageNum, rotation)

\* what the container holds before the call: nothing, or an earlier span
EarlierChildren == {<<>>, <<[textContent |-> 9, box |-> <<0, 0, 1, 1>>]>>}

ComputeTextractLayer ==
  \E children \in EarlierChildren : \E blocks \in BlockLists :
  \E pageNum \in PageNums :
    /\ calc' = [op |-> "textract",
                in |-> [children |-> children, blocks |-> blocks, pageNum |-> pageNum],
                out |-> textractChildren(children, blocks, pageNum, 90),
                turns |-> 0]
    /\ UNCHANGED <<props, env, inst, dom, runs, textRuns, log, sched>>

CalcInit == SchedInit

CalcNext ==
  \/ TakeBBox \/ MapBBox \/ ComputeDimensions \/ ComputeScale
  \/ ComputeRotation \/ ComputeFormFields \/ ComputeTextractLayer

CalcSpec == CalcInit /\ [][CalcNext]_vars

\* ================================================================ claims
Quiescent ==
  /\ env.retryFrames = 0 /\ env.resizeFrames = 0
  /\ inst.setup # "getPage"
  /\ \A t \in Tokens : runs[t].pc \in {"none", "done"}
  /\ \A t \in TextTokens : textRuns[t].pc \in {"none", "done"}

OverlayWrites ==
  {<<"renderPage", "textLayer">>, <<"renderPage", "annotationLayer">>,
   <<"renderPage", "formLayer">>}

\* pass t woke up from one of its awaits after a later call had started
WokeSuperseded(t) == runs[t].pc = "done" /\ runs[t].outcome = "stale"

\* pass t is the latest call, and it ran to the end of renderPage() with
\* measurable geometry, a canvas context and no rejected task
RanThrough(t) ==
  /\ t = inst.renderToken /\ ~inst.isDestroyed
  /\ runs[t].pc = "done"
  /\ runs[t].outcome \in {"rendered", "noFormLayer"}

\* C1: of two renderPage() calls of one page, the second started while the
\* first was suspended at an await, exactly one `rendered` event is emitted
\* and it is the second call's; the first writes nothing to the text,
\* annotation or form containers once the second has started.
C1_SecondRenderWins ==
  \A a \in Tokens : \A b \in Tokens :
    (a < b /\ WokeSuperseded(a) /\ RanThrough(b)) =>
       /\ log.rendered[a] = 0
       /\ log.rendered[b] = 1
       /\ log.staleWrites \cap OverlayWrites = {}

\* C2: no pass of renderPage() or renderTextLayerOnly() mutates anything
\* (canvas, overlay containers, cached page, page width and height,
\* isRendered, emitted events) while the token of its counter differs from
\* its own or the instance is destroyed.
C2_NoMutationWhenStale == log.staleWrites = {}

C2_Witness ==
  /\ \E t \in Tokens : WokeSuperseded(t)
  /\ \E t \in TextTokens : textRuns[t].pc = "done" /\ textRuns[t].outcome = "stale"

\* C3: page.render() is never called while the page's number is outside
\* pagesToRender.
C3_NoRasterOutsideWindow == ~log.rasterOutside

C3_Witness ==
  /\ ~props.inWindow /\ env.life = "mounted"
  /\ \E t \in Tokens : WokeSuperseded(t)
  /\ log.rasterCalls > 0

\* the RenderWindow of the data model: the neighbours of every visible
\* page, clipped to [1, numPages]
RenderWindow(visible, numPages) ==
  {n \in 1..numPages : \E v \in visible : n \in {v - 1, v, v + 1}}

\* C4: after every visibility-changed event is handled, pagesToRender is
\* the union over the visible pages p of {p-1, p, p+1} clipped to
\* [1, numPages], and the visible set has gained p (isVisible) or lost it.
C4_WindowAfterVisibilityChange ==
  [][sched'.handled =>
       /\ sched'.pagesToRender =
            RenderWindow(sched'.visiblePages, sched'.numPages)
       /\ sched'.visiblePages =
            IF sched'.last[2]
            THEN sched.visiblePages \cup {sched'.last[1]}
            ELSE sched.visiblePages \ {sched'.last[1]}]_vars

C4_Witness ==
  /\ sched.handled /\ sched.numPages = 3
  /\ sched.visiblePages = {1, 3} /\ sched.pagesToRender = {1, 2, 3}
  /\ sched.last = <<3, TRUE>>

\* the page's dimensions at the current container width are not zero
Measurable ==
  LET dims == getPageDimensions(World, ratioOf(World)) IN
  dims[1] # 0 /\ dims[2] # 0

C6_TextToggleRendersOnce ==
  (log.scn.kind = "textOn" /\ Measurable) =>
    /\ log.nativeTextCalls - log.scn.text <= 1
    /\ dom.text.gen # 0
    /\ Quiescent => log.nativeTextCalls - log.scn.text = 1

\* C7: while the text layer is enabled and OCR blocks are supplied, no
\* pass calls the native text-layer renderer.
C7_OcrExcludesNative == ~log.nativeWhileOcr

\* what cleanup() is said to leave behind
CleanupObs ==
  [renderingTask |-> inst.renderingTask, canvas |-> dom.canvas,
   text |-> dom.text.nodes, annotation |-> dom.annot.nodes,
   page |-> inst.page, isRendered |-> inst.isRendered]

Clean ==
  [renderingTask |-> 0, canvas |-> 0, text |-> {}, annotation |-> {},
   page |-> FALSE, isRendered |-> FALSE]

\* C8: cleanup() leaves no active raster task, canvas dimensions 0, empty
\* text and annotation containers, no page handle and isRendered false, and
\* a second consecutive cleanup() leaves all of that as the first left it.
C8_CleanupIdempotent ==
  [][log'.cleaned > 0 =>
       /\ CleanupObs' = Clean
       /\ log.cleaned > 0 => CleanupObs' = CleanupObs]_vars

C8_Witness == log.cleaned = 2 /\ log.rasterCalls > 0

\* C9: the zero-dimension retry is scheduled at most once at a time, and the
\* attempt it starts does not schedule a retry again.
C9_RetryDoesNotReschedule ==
  /\ env.retryFrames <= 1
  /\ ~log.retryByRetry

\* C10: a raster task rejected with RenderingCancelledException never
\* causes a `rendering-failed` event.
C10_CancellationIsSilent ==
  \A e \in log.failed : e[3] # "RenderingCancelledException"

C10_Witness ==
  /\ \E t \in Tokens : runs[t].raster = "cancelled"
  /\ \E t \in Tokens : runs[t].raster = "error" /\ <<t, "rasterCatch", "Error">> \in log.failed

\* C11: a rejection (other than the cancellation) of a provider call or of a
\* render task, in a renderPage() or renderTextLayerOnly() pass that is
\* current, is surfaced as a `rendering-failed` event, and the step that
\* surfaces it starts no render attempt.
C11_RejectionsSurface ==
  /\ \A t \in Tokens :
       runs[t].outcome \in {"failed", "threw"} =>
         \E e \in log.failed : e[1] = t /\ e[3] = "Error"
  /\ \A t \in TextTokens :
       textRuns[t].outcome = "threw" =>
         \E e \in log.failed : e[2] = "renderTextLayerOnly"

\* C12: a renderPage() pass that started its raster task, is still the
\* current one and has returned with no task rejected has set isRendered and
\* emitted `rendered` exactly once, whatever the layer flags are.
C12_RenderedOncePerAttempt ==
  /\ \A t \in Tokens : log.rendered[t] <= 1
  /\ \A t \in Tokens :
       (/\ t = inst.renderToken /\ ~inst.isDestroyed
        /\ runs[t].pc = "done" /\ runs[t].raster = "resolved"
        /\ runs[t].outcome \notin {"failed", "threw"}) =>
          inst.isRendered /\ log.rendered[t] = 1

\* C13: mapping a bounding box through four quarter turns in succession
\* returns the box; two 90-degree maps are the 180-degree map, three are
\* the 270-degree map, and the 270-degree map undoes the 90-degree map.
C13_QuarterTurnsRoundTrip ==
  calc.op = "bbox" =>
    LET b == BBox(calc.out)
        b90 == mapTextractBBoxForRotation(b, 90)
        b180 == mapTextractBBoxForRotation(b90, 90)
        b270 == mapTextractBBoxForRotation(b180, 90)
    IN /\ (calc.turns = 4 => calc.out = calc.in)
       /\ BBox(calc.out) =
            mapTextractBBoxForRotation(BBox(calc.in), 90 * (calc.turns % 4))
       /\ mapTextractBBoxForRotation(b270, 90) = b
       /\ b180 = mapTextractBBoxForRotation(b, 180)
       /\ b270 = mapTextractBBoxForRotation(b, 270)
       /\ mapTextractBBoxForRotation(b90, 270) = b

C13_Witness ==
  /\ calc.op = "bbox" /\ calc.turns = 4
  /\ calc.in = <<0, 1, 2, 1>> /\ calc.out = calc.in

\* the inputs and the result of an evaluation of getPageDimensions
DimWidth == calc.in[1]
DimHeight == calc.in[2]
DimContainer == calc.in[3]
DimRatioHolds == calc.out[1] * calc.in[4] = calc.out[2] * calc.in[5]
Given(x) == x # Undefined /\ x # 0

\* C14 as claimed: the result is (0,0) iff there is neither a usable
\* container width nor an explicit width or height; otherwise
\* width * ratio = height.
C14_ZeroIffNothingToMeasure_Original ==
  calc.op = "dims" =>
    /\ calc.out = <<0, 0>> <=>
         (DimContainer = 0 /\ ~Given(DimWidth) /\ ~Given(DimHeight))
    /\ calc.out # <<0, 0>> => DimRatioHolds

\* C14 amended: the result is (0,0) iff the height does not drive the
\* layout and either the requested width is 0, or no width is requested
\* and the container width is 0; width * ratio = height in every case.
C14_ZeroIffNothingToMeasure ==
  calc.op = "dims" =>
    /\ calc.out = <<0, 0>> <=>
         /\ ~(Given(DimHeight) /\ ~Given(DimWidth))
         /\ \/ DimWidth = 0
            \/ DimWidth = Undefined /\ DimContainer = 0
    /\ DimRatioHolds

C14_Witness ==
  /\ calc.op = "dims" /\ calc.out = <<0, 0>>
  /\ DimWidth = 0 /\ DimContainer = 2 /\ DimHeight = Undefined

\* the case rule of the data model, with `set` read as `given`
RuleDimensions(heightFirst) ==
  IF heightFirst
  THEN <<(DimHeight * calc.in[5]) \div calc.in[4], DimHeight>>
  ELSE LET width == IF DimWidth # Undefined
                    THEN (IF DimContainer > 0 THEN Min(DimWidth, DimContainer)
                          ELSE DimWidth)
                    ELSE DimContainer
       IN <<width, (width * calc.in[4]) \div calc.in[5]>>

\* C15 as claimed: height set and width not set gives the height-driven
\* case; otherwise the width is the requested width capped by a container
\* width > 0, or the container width when no width is requested.
C15_CaseRule_Original ==
  calc.op = "dims" =>
    calc.out = RuleDimensions(DimHeight # Undefined /\ DimWidth = Undefined)

\* C15 amended: the height-driven case is taken when the height is set and
\* not 0 and the width is unset or 0; the rest of the rule is as claimed.
C15_CaseRule ==
  calc.op = "dims" =>
    calc.out = RuleDimensions(Given(DimHeight) /\ ~Given(DimWidth))

C15_Witness ==
  /\ calc.op = "dims"
  /\ calc.in = <<6, Undefined, 4, 4, 2>> /\ calc.out = <<4, 8>>

\* the page width the scale is taken against, as the data model states it
ScaleBase == IF calc.in[3] \in {90, 270} THEN calc.in[2] ELSE calc.in[1]
ScaleOther == IF calc.in[3] \in {90, 270} THEN calc.in[1] ELSE calc.in[2]
DeviceFactor == calc.in[5] * calc.in[6]

\* C16: pageScale = css width / (H if the page is transposed, else W), so
\* width 300 on a 600x800 page gives 0.5; the canvas pixel size is that of a
\* viewport at pageScale * devicePixelRatio * scale prop; the overlay
\* layers use the pageScale viewport, not the device-adjusted one.
C16_ScaleComputation ==
  calc.op = "scale" =>
    /\ calc.out[1] * ScaleBase = calc.in[4] * calc.out[2]
    /\ (calc.in[1] = 600 /\ calc.in[2] = 800 /\ calc.in[3] = 0 /\ calc.in[4] = 300)
         => calc.out[1] * 2 = calc.out[2]
    /\ calc.out[3] * ScaleBase = ScaleBase * calc.in[4] * DeviceFactor
    /\ calc.out[4] * ScaleBase = ScaleOther * calc.in[4] * DeviceFactor
    /\ calc.out[5] * ScaleBase = calc.in[4] * calc.out[6]
    /\ DeviceFactor # 1 =>
         calc.out[5] * ScaleBase # calc.in[4] * DeviceFactor * calc.out[6]

C16_Witness ==
  /\ calc.op = "scale"
  /\ calc.in = <<600, 800, 90, 300, 2, 2>>
  /\ calc.out = <<300, 800, 1200, 900, 300, 800>>

\* the page elements the data model asks for
ExpectedPages ==
  IF sched.numPages = 0 THEN {}
  ELSE IF sched.page # Undefined THEN {sched.page}
  ELSE IF sched.activeSection # <<>>
       THEN {n \in sched.activeSection[1]..sched.activeSection[2] :
               n <= sched.numPages}
  ELSE {n \in 1..MaxPages : n <= sched.numPages}

\* C17: one page element with id <id>-<n> per page number: 1..numPages with
\* neither `page` nor `activeSection`, the single page with `page`,
\* first_page..min(last_page, numPages) with `activeSection`, and none while
\* no document is loaded.
C17_OneElementPerPageNumber ==
  /\ pageElements(sched) = {<<RootId, n>> : n \in ExpectedPages}
  /\ Cardinality(pageElements(sched)) = Cardinality(pageNums(sched))
  /\ (sched.page = Undefined /\ sched.activeSection = <<>>) =>
       \A e \in pageElements(sched) : e[2] # 0 /\ e[2] # sched.numPages + 1

C17_Witness ==
  /\ sched.numPages = 3 /\ sched.page = Undefined
  /\ sched.activeSection = <<2, MaxPages + 1>>
  /\ pageElements(sched) = {<<RootId, 2>>, <<RootId, 3>>}

\* C18: the step in which a document becomes available emits `loaded` with
\* the document and, if there is a page to display, `rendered`; no step
\* emits either event while no document is available.
C18_LoadedAndRendered ==
  [][/\ (sched'.numPages # sched.numPages /\ sched'.numPages # 0) =>
          /\ <<"loaded", sched'.numPages>> \in sched'.emitted
          /\ pageNums(sched') # {} => <<"rendered", 0>> \in sched'.emitted
     /\ sched'.numPages = 0 => sched'.emitted = {}]_vars

C18_Witness ==
  /\ sched.numPages = 3
  /\ sched.emitted = {<<"loaded", 3>>, <<"rendered", 0>>}


\* one cleanup() followed by one renderPage(): cleanup() advances both tokens
\* and drops the page and the rendered flag, renderPage() then advances the
\* render token again and fetches the page for the pass it starts
CleanupThenRender ==
  /\ inst'.renderToken = inst.renderToken + 2
  /\ inst'.textLayerRenderToken = inst.textLayerRenderToken + 1
  /\ log'.getPageCalls = log.getPageCalls + 1
  /\ runs'[inst'.renderToken].pc = "getPage"
  /\ ~inst'.isRendered /\ ~inst'.page /\ inst'.renderingTask = 0

\* neither cleanup() nor renderPage() ran
NeitherCleanupNorRender ==
  /\ inst'.renderToken = inst.renderToken
  /\ inst'.textLayerRenderToken = inst.textLayerRenderToken
  /\ log'.getPageCalls = log.getPageCalls
  /\ runs' = runs

\* the queued resize recompute runs
ResizeTicks == inst.resizeRaf /\ ~inst'.resizeRaf /\ env'.life = env.life

\* what the recompute derives from the cached ratio
ResizeDims ==
  IF inst.pageRatio # <<0, 1>> THEN getPageDimensions(World, inst.pageRatio)
  ELSE <<0, 0>>

\* C19: resize notifications coalesce: at most one recompute is queued at any
\* time, the first notification queues it, a notification that arrives while
\* it is queued queues nothing, and the one tick recomputes the css width and height from the cached ratio and,
\* only when the page is in the render window, runs exactly one cleanup() and
\* then one renderPage()
C19_ResizeCoalesces ==
  [][/\ env'.resizeFrames <= 1
     /\ (inst.resizeRaf /\ env'.containerWidth # env.containerWidth) =>
           /\ env'.resizeFrames = env.resizeFrames
           /\ inst' = inst /\ runs' = runs
     /\ (/\ ~inst.resizeRaf /\ env'.containerWidth # env.containerWidth
         /\ inst.resizeObserver # "none" /\ ~heightDriven(props)) =>
           /\ inst'.resizeRaf /\ env'.resizeFrames = 1
           /\ runs' = runs /\ inst'.renderToken = inst.renderToken
     /\ ResizeTicks =>
           /\ env'.resizeFrames = 0
           /\ IF ResizeDims[1] # 0 /\ ResizeDims[2] # 0
              THEN /\ inst'.pageWidth = ResizeDims[1]
                   /\ inst'.pageHeight = ResizeDims[2]
              ELSE /\ inst'.pageWidth = inst.pageWidth
                   /\ inst'.pageHeight = inst.pageHeight
           /\ IF props.inWindow THEN CleanupThenRender
              ELSE NeitherCleanupNorRender]_vars

\* a tick that followed several notifications has started its one pass
C19_Witness ==
  /\ log.coalesced /\ ~inst.resizeRaf /\ env.resizeFrames = 0
  /\ env.life = "mounted" /\ props.inWindow
  /\ inst.renderToken = 3 /\ runs[3].pc = "getPage"
  /\ inst.pageWidth = 4 /\ env.containerWidth = 4

\* one of scale, rotation, width and height changes
GeometryChanges ==
  \/ props'.scale # props.scale
  \/ props'.rotation # props.rotation
  \/ props'.width # props.width
  \/ props'.height # props.height

\* C20: in the render window every change of scale, rotation, width or height
\* runs cleanup() and then renderPage(); outside it the change runs neither;
\* leaving the render window runs cleanup() only, with no pass started and no
\* page fetched
C20_GeometryRerenders ==
  [][/\ (GeometryChanges /\ props.inWindow) => CleanupThenRender
     /\ (GeometryChanges /\ ~props.inWindow) => NeitherCleanupNorRender
     /\ (props.inWindow /\ ~props'.inWindow) =>
           /\ inst'.renderToken = inst.renderToken + 1
           /\ inst'.textLayerRenderToken = inst.textLayerRenderToken + 1
           /\ log'.getPageCalls = log.getPageCalls
           /\ \A t \in Tokens : runs'[t].pc = "getPage" => runs[t].pc = "getPage"
           /\ ~inst'.isRendered /\ ~inst'.page /\ inst'.renderingTask = 0]_vars

\* a change of scale inside the window has started its pass
C20_Witness ==
  /\ props.scale = 2 /\ props.inWindow /\ env.life = "mounted"
  /\ inst.renderToken = 3 /\ runs[3].pc = "getPage"
  /\ log.getPageCalls >= 2


\* text-only pass t starts or takes its next step
TextOnlySteps(t) == textRuns'[t] # textRuns[t] /\ textRuns'[t].pc # "none"

\* C21: renderTextLayerOnly() fetches no page when a page handle is cached and
\* never changes the canvas, the raster task, the raster token, the annotation
\* or form containers or isRendered; what it writes (the text layer container
\* and the page geometry) it writes as the current text-layer pass
C21_TextOnlyFrame ==
  [][\A t \in TextTokens : TextOnlySteps(t) =>
        /\ dom'.canvas = dom.canvas
        /\ inst'.renderingTask = inst.renderingTask
        /\ inst'.renderToken = inst.renderToken
        /\ dom'.annot = dom.annot /\ dom'.form = dom.form
        /\ inst'.isRendered = inst.isRendered
        /\ runs' = runs
        /\ log'.rasterCalls = log.rasterCalls
        /\ log'.getPageCalls \in {log.getPageCalls, log.getPageCalls + 1}
        /\ (inst.page => log'.getPageCalls = log.getPageCalls)
        /\ (textRuns[t].pc # "none" /\
            (dom'.text # dom.text \/ inst'.pageWidth # inst.pageWidth
               \/ inst'.pageHeight # inst.pageHeight
               \/ inst'.pageRatio # inst.pageRatio)) =>
              t = inst.textLayerRenderToken /\ ~inst.isDestroyed]_vars

\* a text-only pass drew the text layer of a rendered page from the cached page
C21_Witness ==
  \E t \in TextTokens :
     /\ textRuns[t].pc = "done" /\ textRuns[t].outcome = "ocr"
     /\ inst.page /\ inst.isRendered /\ dom.canvas # Undefined
     /\ log.getPageCalls = 2 /\ log.rasterCalls = 1
     /\ dom.text.nodes # {}


\* C22: while the page is height-driven a container resize notification
\* schedules no recompute and causes no cleanup() or renderPage(), whichever
\* observer delivers it, also when the props became height-driven only after
\* the observer was installed
C22_HeightDrivenIgnoresResize ==
  [][(heightDriven(props) /\ env'.containerWidth # env.containerWidth) =>
        /\ env'.resizeFrames = env.resizeFrames
        /\ inst' = inst /\ runs' = runs
        /\ log'.getPageCalls = log.getPageCalls]_vars


\* C23: at most one resize observer is connected for a page instance, and
\* the connected observer of a mounted page observes the current effective
\* container (parentRoot, else the page element's parent)
C23_OneObserverOnContainer ==
  /\ Cardinality(env.observing) <= 1
  /\ env.life = "mounted" =>
        \A o \in env.observing : o[2] = getContainerElement(World)


\* the pass returned because an element it needs is missing: the canvas, its
\* 2D context, or an overlay container (the form layer container)
MissingPrerequisite(t) ==
  /\ runs[t].pc = "done"
  /\ runs[t].outcome \in {"noCanvas", "noContext", "noFormLayer"}

\* C24: a renderPage() pass that finds a DOM prerequisite missing aborts
\* silently: it emits neither `rendered` nor `rendering-failed`, starts no
\* raster task and does not set isRendered
C24_MissingPrerequisiteIsSilent ==
  \A t \in Tokens : MissingPrerequisite(t) =>
     /\ log.rendered[t] = 0
     /\ \A e \in log.failed : e[1] # t
     /\ runs[t].raster = "none"
     /\ (t = inst.renderToken => ~inst.isRendered)


\* C25: a render attempt ends in exactly one of Rendered, Failed or
\* Superseded: `rendered` and `rendering-failed` are never both emitted for one
\* attempt, and no attempt one of whose raster, text or annotation tasks
\* rejected with an error other than the cancellation sets isRendered
C25_OneOutcomePerAttempt ==
  [][\A t \in Tokens :
       /\ ~(log'.rendered[t] > 0 /\ \E e \in log'.failed : e[1] = t)
       /\ (log'.rendered[t] > log.rendered[t] \/
           (t = inst.renderToken /\ runs[t].pc = "all"
              /\ inst'.isRendered /\ ~inst.isRendered)) =>
             /\ runs[t].raster # "error"
             /\ runs[t].text # "error"
             /\ runs[t].annot # "error"]_vars


\* C26: for every requested rotation, negative values and values of 360 or
\* more included, and every intrinsic page rotation, the effective rotation
\* is one of 0, 90, 180, 270, equals (requested + intrinsic) mod 360, and the
\* page is transposed exactly when effective rotation / 90 is odd
C26_EffectiveRotation ==
  calc.op = "rotation" =>
    /\ calc.out[1] \in {0, 90, 180, 270}
    /\ calc.out[1] = (calc.in[1] + calc.in[2]) % 360
    /\ (calc.out[2] = 1) <=> (((calc.in[1] + calc.in[2]) % 360) \div 90) % 2 = 1


\* the remap the specification states for effective rotation r (1 is Grid)
StatedRemap(b, r) ==
  IF r = 0 THEN b
  ELSE IF r = 90
  THEN [Left |-> Grid - (b.Top + b.Height), Top |-> b.Left,
        Width |-> b.Height, Height |-> b.Width]
  ELSE IF r = 180
  THEN [Left |-> Grid - (b.Left + b.Width), Top |-> Grid - (b.Top + b.Height),
        Width |-> b.Width, Height |-> b.Height]
  ELSE [Left |-> b.Top, Top |-> Grid - (b.Left + b.Width),
        Width |-> b.Height, Height |-> b.Width]

InsideUnitSquare(b) ==
  /\ b.Left >= 0 /\ b.Top >= 0 /\ b.Width >= 0 /\ b.Height >= 0
  /\ b.Left + b.Width <= Grid /\ b.Top + b.Height <= Grid

\* C27: mapTextractBBoxForRotation is the stated remap for each effective
\* rotation (identity at 0; the stated Left', Top' and the swap of Width and
\* Height at 90 and 270; the point reflection at 180), and a box inside the
\* unit square maps to a box inside the unit square
C27_StatedRemap ==
  calc.op = "bbox" =>
    /\ BBox(calc.out) = StatedRemap(BBox(calc.in), 90 * (calc.turns % 4))
    /\ InsideUnitSquare(BBox(calc.out))
    /\ \A q \in RotationArgs :
         LET m == mapTextractBBoxForRotation(BBox(calc.out), q) IN
         m = StatedRemap(BBox(calc.out), q % 360) /\ InsideUnitSquare(m)

\* a box that is not square was mapped by 270 degrees
C27_Witness ==
  /\ calc.op = "bbox" /\ calc.turns = 3
  /\ calc.in = <<0, 1, 2, 1>> /\ calc.out = <<1, 0, 1, 2>>


\* the category the specification states for a Widget annotation
StatedCategory(a) ==
  IF a.fieldType = "Tx" THEN "Text Field"
  ELSE IF a.fieldType = "Btn" /\ a.checkBox THEN "Checkbox"
  ELSE IF a.fieldType = "Btn" /\ a.radioButton THEN "Radio Button"
  ELSE IF a.fieldType = "Btn" THEN "Push Button"
  ELSE IF a.fieldType = "Ch" /\ a.combo THEN "Combo Box"
  ELSE IF a.fieldType = "Ch" THEN "List Box"
  ELSE IF a.fieldType = "Sig" THEN "Signature Field"
  ELSE "Unknown Field Type"

IsWidget(a) == a.annotation.subtype = "Widget"

\* the marker stated for a Widget annotation whose viewport rectangle is x
StatedMarker(a, x) ==
  [left |-> x[1], top |-> FormViewportHeight - x[4],
   width |-> x[3] - x[1], height |-> x[4] - x[2],
   fieldCategory |-> StatedCategory(a)]

\* C28: renderFormFields gives every Widget annotation exactly one of the
\* eight categories by the stated rule and exactly one marker at
\* (x1, viewportHeight - y2) with size (x2 - x1, y2 - y1), in input order;
\* annotations of any other subtype get no marker
C28_FormFieldMarkers ==
  calc.op = "form" =>
    LET widgets == SelectSeq(calc.in, IsWidget) IN
    /\ Len(calc.out) = Len(widgets)
    /\ \A i \in 1..Len(widgets) :
          calc.out[i] = StatedMarker(widgets[i].annotation,
                                     convertToViewportRectangle(widgets[i].rect))

\* a button flagged both checkbox and radio button after a link annotation
C28_Witness ==
  /\ calc.op = "form" /\ Len(calc.in) = 2 /\ Len(calc.out) = 1
  /\ calc.in[1].annotation.subtype = "Link"
  /\ calc.in[2].annotation.fieldType = "Btn"
  /\ calc.in[2].annotation.checkBox /\ calc.in[2].annotation.radioButton
  /\ calc.out[1].fieldCategory = "Checkbox"
  /\ calc.out[1].left = 2 /\ calc.out[1].top = 2
  /\ calc.out[1].width = 4 /\ calc.out[1].height = 6


\* C29: the form-field overlay is rebuilt from scratch on every render pass:
\* when a pass has rendered a page whose form layer is present, the form
\* layer holds the markers of that pass and no marker of an earlier pass
C29_FormLayerRebuilt ==
  [][\A t \in Tokens :
       (log'.rendered[t] > log.rendered[t] /\ dom'.form.gen # 0) =>
          dom'.form.nodes \subseteq {t}]_vars


\* a block that the specification says is placed on page n
IsPlaced(block, n) ==
  /\ block.BlockType = "LINE" /\ block.Page = n
  /\ block.Text # 0 /\ block.BoundingBox # <<>>

\* C30: the Textract overlay pass empties the text layer container and then
\* places exactly one node per supplied block whose BlockType is LINE, whose
\* Page is the page being rendered and that has a text and a bounding box, in
\* input order; blocks of any other type or page produce no node
C30_TextractNodes ==
  calc.op = "textract" =>
    LET IsMine(block) == IsPlaced(block, calc.in.pageNum)
        placed == SelectSeq(calc.in.blocks, IsMine)
    IN /\ Len(calc.out) = Len(placed)
       /\ \A i \in 1..Len(placed) : calc.out[i].textContent = placed[i].Text
       /\ \A i \in 1..Len(calc.out) :
            \A j \in 1..Len(calc.in.children) : calc.out[i] # calc.in.children[j]

\* a container with an earlier span received the one line of page 2 out of
\* two LINE blocks
C30_Witness ==
  /\ calc.op = "textract" /\ calc.in.pageNum = 2
  /\ calc.in.children # <<>> /\ Len(calc.in.blocks) = 2
  /\ calc.in.blocks[1].BlockType = "LINE" /\ calc.in.blocks[1].Page = 1
  /\ calc.in.blocks[2].BlockType = "LINE" /\ calc.in.blocks[2].Page = 2
  /\ Len(calc.out) = 1 /\ calc.out[1].textContent = 2

\* the text nodes of the container by the renderer that wrote them
OcrNodes == {n \in dom.text.nodes : n[3] = "ocr"}
NativeNodes == {n \in dom.text.nodes : n[3] = "native"}

\* the text-only pass started last has run to its end
LastTextPassDone ==
  /\ inst.textLayerRenderToken \in TextTokens
  /\ inst.textLayerRenderToken > 0
  /\ textRuns[inst.textLayerRenderToken].pc = "done"

\* C31: with the text layer enabled on a page in the window, once the text
\* pass that follows switching the OCR blocks off has finished it has used
\* the native text content and the container holds no OCR node; once the
\* pass that follows switching them on has finished it has drawn the OCR
\* blocks and the container holds no native node.
C31_OcrSwitchReplacesText ==
  (Measurable /\ LastTextPassDone) =>
    /\ log.scn.kind = "ocrOff" =>
          /\ textRuns[inst.textLayerRenderToken].outcome = "native"
          /\ OcrNodes = {}
    /\ log.scn.kind = "ocrOn" =>
          /\ textRuns[inst.textLayerRenderToken].outcome = "ocr"
          /\ NativeNodes = {}

\* C32: the visibility-changed events of a page alternate between
\* isVisible = true and isVisible = false, the first one carries true, and
\* every one carries the page's own number.
C32_VisibilityAlternates ==
  LET v == log.visibility IN
  /\ v.first # <<>> => v.first = <<props.pageNum, TRUE>>
  /\ v.last # <<>> => v.last[1] = props.pageNum
  /\ v.prev # <<>> => /\ v.prev[1] = props.pageNum
                      /\ v.prev[2] # v.last[2]

C32_Witness ==
  /\ log.visibility.first = <<2, TRUE>>
  /\ log.visibility.prev = <<2, FALSE>>
  /\ log.visibility.last = <<2, TRUE>>
  /\ inst.isVisible

\* C33: neither token ever decreases; a renderPage() attempt starts under a
\* token above every token used before, and so does a text-only pass under
\* the text-layer token; cleanup() raises both tokens; no attempt starts
\* under a token another attempt holds.
C33_TokensIncrease ==
  [][/\ inst'.renderToken >= inst.renderToken
     /\ inst'.textLayerRenderToken >= inst.textLayerRenderToken
     /\ \A t \in Tokens :
          /\ runs[t].pc # "none" => t <= inst.renderToken
          /\ (runs'[t].pc = "getPage" /\ runs[t].pc # "getPage") =>
               /\ runs[t].pc = "none"
               /\ inst.renderToken < t /\ t <= inst'.renderToken
     /\ \A t \in TextTokens :
          /\ textRuns[t].pc # "none" => t <= inst.textLayerRenderToken
          /\ (textRuns'[t].pc = "nextTick" /\ textRuns[t].pc # "nextTick") =>
               /\ textRuns[t].pc = "none"
               /\ inst.textLayerRenderToken < t
               /\ t <= inst'.textLayerRenderToken
     /\ log'.cleaned > log.cleaned =>
          /\ inst'.renderToken > inst.renderToken
          /\ inst'.textLayerRenderToken > inst.textLayerRenderToken]_vars

C33_Witness ==
  /\ runs[1].pc # "none" /\ textRuns[1].pc # "none"
  /\ inst.renderToken = 2 /\ inst.textLayerRenderToken = 2
  /\ log.cleaned = 1

\* the raster tasks started and neither settled nor cancelled
RasterInFlight == {t \in Tokens : runs[t].raster = "pending"}

\* C34: at most one raster task is in flight and it is the one held in
\* renderingTask; a raster task is started only by the attempt that is
\* current when it starts.
C34_OneRasterTask ==
  /\ Cardinality(RasterInFlight) <= 1
  /\ \A t \in RasterInFlight : inst.renderingTask = t
  /\ ~log.rasterStale

C34_Witness ==
  /\ runs[1].raster = "cancelled" /\ runs[3].raster = "pending"
  /\ inst.renderingTask = 3

\* the attempt holding the current raster token has ended as Rendered
CurrentAttemptRendered ==
  /\ inst.renderToken \in Tokens /\ inst.renderToken > 0
  /\ runs[inst.renderToken].pc = "done"
  /\ runs[inst.renderToken].outcome = "rendered"

\* C35: isRendered is true only on a mounted page in the window whose most
\* recent render attempt has completed and none of whose tasks failed; a
\* step that runs cleanup() leaves it false.
C35_IsRenderedMeansRendered ==
  /\ inst.isRendered =>
        /\ Mounted /\ shouldRender(World)
        /\ CurrentAttemptRendered
        /\ runs[inst.renderToken].raster = "resolved"
  /\ log.cleaned > 0 => ~inst.isRendered

\* C36: once the page is unmounted no step emits `rendered` or
\* `rendering-failed` and no step changes the canvas or an overlay
\* container, whichever fetch or task resolves or rejects in that step.
C36_SilentAfterUnmount ==
  [][env.life = "unmounted" =>
       /\ log'.rendered = log.rendered
       /\ log'.failed = log.failed
       /\ dom' = dom
       /\ log'.staleWrites = log.staleWrites]_vars

C36_Witness ==
  /\ env.life = "unmounted" /\ inst.isDestroyed
  /\ inst.renderToken = 2
  /\ WokeSuperseded(1) /\ runs[1].raster = "cancelled"
  /\ inst.setup = "done"

\* C37: on an unmounted page no resize observer and no intersection observer
\* is connected and no animation-frame callback is pending, also when the
\* page fetch of setup() or of renderPage() resolves after the unmount.
C37_NothingLeftAfterUnmount ==
  env.life = "unmounted" =>
    /\ env.observing = {} /\ inst.resizeObserver = "none"
    /\ ~inst.observer
    /\ env.resizeFrames = 0 /\ env.retryFrames = 0
    /\ ~inst.resizeRaf /\ ~inst.pendingRetryRaf

\* C38: the text layer container holds the output of at most one text pass:
\* text is never duplicated, and native and OCR nodes are never held together.
C38_OneTextPassOutput ==
  /\ Cardinality(dom.text.nodes) <= 1
  /\ OcrNodes = {} \/ NativeNodes = {}

C40_VisibleAreMounted ==
  /\ sched.visiblePages \subseteq pageNums(sched)
  /\ sched.pagesToRender \subseteq 1..sched.numPages

====
